---- MODULE Spec2Model ----
(***************************************************************************)
(* State-machine model of the crawl orchestration of codeflex-ai:          *)
(*   RateLimiter      (src/utils/rate_limiter.py)                          *)
(*   ProxyManager     (src/utils/proxy_manager.py)                         *)
(*   BaseScraper      (src/core/base_scraper.py)                           *)
(*   HTMLScraper      (src/core/html_scraper.py)                           *)
(*   DataProcessor    (src/utils/data_processor.py)                        *)
(*   WebScraper       (src/scrapers/web_scraper.py)                        *)
(* Time is an integer clock `now` (one unit = one second).  Coroutines of  *)
(* one event loop are atomic between their await points.                   *)
(***************************************************************************)
EXTENDS Integers, Sequences, FiniteSets, TLC

(***************************************************************************)
(* Bounds of the model                                                     *)
(***************************************************************************)
\* longest configured proxy list
MaxProxies == 2
\* per-proxy cap on the requests counter
MaxRequests == 10
\* per-proxy cap on the failures counter
MaxFailures == 6
\* caps of the specification with pool edits: the rotation cursor (which
\* reset_proxy_stats does not clear), the requests and the failures of the pool
MaxIndex == 7
MaxPoolRequests == 7
MaxPoolFailures == 4

(***************************************************************************)
(* Values                                                                  *)
(***************************************************************************)
\* Python's None where the other values are strings
None == "None"
\* Python's None where the other values are numbers, records or lists; an
\* optional number n is <<n>>
Nil == <<>>
\* the exception raised by a dict lookup of a missing key
KeyError == "KeyError"
Proxies == {"p1", "p2"}
\* response times reported to mark_proxy_success
ResponseTimes == {1}

Max(a, b) == IF a >= b THEN a ELSE b

Range(s) == {s[i] : i \in DOMAIN s}

\* sequences over S of length at most n
SeqUpTo(S, n) == UNION {[1..k -> S] : k \in 0..n}

\* Python truthiness of an optional number: None and 0 are falsy
Truthy(x) == x # Nil /\ x[1] # 0

VARIABLES
    config,                 \* ScrapingConfig of the instance
    now,                    \* time.time()
    proxies,                \* ProxyManager.proxies
    current_proxy_index,    \* ProxyManager.current_proxy_index
    proxy_stats,            \* ProxyManager.proxy_stats
    last_call,              \* the last ProxyManager call: its method, argument, return value
    last_request_time,      \* RateLimiter.last_request_time
    request_count,          \* RateLimiter.request_count
    robots_cache,           \* BaseScraper._robots_cache, by domain
    stats,                  \* BaseScraper.stats
    attempts,               \* history: how many HTTP exchanges were attempted on the network
    seen_hashes,            \* DataProcessor.seen_hashes
    duplicate_count,        \* DataProcessor.duplicate_count
    submitted,              \* history: each is_duplicate call, its record and its answer
    results,                \* WebScraper.results
    errors,                 \* WebScraper.errors
    batch,                  \* the scrape_multiple_urls_async call: its arguments and return
    semaphore,              \* the value of the call's asyncio.Semaphore
    pc,                     \* where each task of the call stands
    wake,                   \* when each sleeping task's asyncio.sleep ends
    task_ret,               \* what each finished task returned
    async_session,          \* SessionManager._async_session: its state, the tasks with a
                            \* request in flight on it, and the tasks in flight on a
                            \* session object that was closed meanwhile
    walk,                   \* the scrape_with_pagination call: its arguments, locals and return
    site,                   \* the web site: the next link each page carries
    handler_call,           \* the PaginationHandler call under way or last made: its
                            \* arguments, its locals and its return value
    robots_failed,          \* history: the domains whose robots.txt load raised
    robots_loads,           \* history: how many times rp.read() was called, by domain
    dispatch_log,           \* history: host and time of each return of wait_sync/wait_async
    last_outcome            \* history: number, URL and outcome of the last request call

proxyVars == <<proxies, current_proxy_index, proxy_stats, last_call>>

rateVars == <<last_request_time, request_count>>

dataVars == <<seen_hashes, submitted, duplicate_count, results, errors>>

batchVars == <<batch, semaphore, pc, wake, task_ret, async_session>>

walkVars == <<walk, site>>

\* everything but the configuration, the clock and the ProxyManager
otherVars ==
    <<last_request_time, request_count, robots_cache, stats, attempts, seen_hashes,
      submitted, duplicate_count, results, errors, batch, semaphore, pc, wake,
      task_ret, async_session, walk, site, handler_call, robots_failed, robots_loads, dispatch_log,
      last_outcome>>

vars ==
    <<config, now, proxies, current_proxy_index, proxy_stats, last_call,
      last_request_time, request_count, robots_cache, stats, attempts, seen_hashes,
      submitted, duplicate_count, results, errors, batch, semaphore, pc, wake,
      task_ret, async_session, walk, site, handler_call, robots_failed, robots_loads, dispatch_log,
      last_outcome>>

(***************************************************************************)
(* ProxyManager                                                            *)
(***************************************************************************)
\* the statistics entry of a proxy that was just added (or reset)
NewProxyStats ==
    [requests |-> 0, failures |-> 0, last_used |-> 0, response_time |-> 0,
     active |-> TRUE]

\* ProxyManager.__init__: the pool is a copy of config.proxy_list, one
\* statistics entry per distinct proxy
ProxyManagerInit(cfg) ==
    /\ proxies = cfg.proxy_list
    /\ current_proxy_index = 0
    /\ proxy_stats = [p \in Range(cfg.proxy_list) |-> NewProxyStats]
    /\ last_call = [op |-> "init", arg |-> None, ret |-> None]

\* get_proxy, mutated: the inactive entries are not filtered out
AllProxies(ps, st) == ps

\* get_proxy: active_proxies = [p for p in self.proxies if stats[p]['active']]
ActiveProxies(ps, st) == SelectSeq(ps, LAMBDA p : st[p].active)

\* the list comprehension of get_proxy raises KeyError when a pool entry has
\* no statistics entry
StatsMissing(ps, st) == \E i \in DOMAIN ps : ps[i] \notin DOMAIN st

\* get_proxy, mutated: the rotation always picks the first active proxy
PickProxyFirst(act, idx, rotation) ==
    IF rotation THEN {act[1]} ELSE Range(act)

\* get_proxy: the proxies the call may pick
\*   rotation: active_proxies[current_proxy_index % len(active_proxies)]
\*   otherwise: random.choice(active_proxies)
PickProxy(act, idx, rotation) ==
    IF rotation THEN {act[(idx % Len(act)) + 1]} ELSE Range(act)

\* get_proxy: every outcome of one call on pool ps, cursor idx, statistics st
\* at time t; ret is the returned proxy, None, or the KeyError raised
GetProxyOutcomes(ps, idx, st, rotation, t) ==
    IF ps = <<>> THEN {[ret |-> None, index |-> idx, stats |-> st]}
    ELSE IF StatsMissing(ps, st)
    THEN {[ret |-> KeyError, index |-> idx, stats |-> st]}
    ELSE LET act == ActiveProxies(ps, st) IN
         IF act = <<>> THEN {[ret |-> None, index |-> idx, stats |-> st]}
         ELSE {[ret   |-> p,
                index |-> IF rotation THEN idx + 1 ELSE idx,
                stats |-> [st EXCEPT ![p].requests = @ + 1,
                                     ![p].last_used = t]] :
               p \in PickProxy(act, idx, rotation)}

\* mark_proxy_failed, mutated: one condition is enough to disable
TooManyFailuresEither(s) ==
    2 * s.failures > Max(1, s.requests) \/ s.requests > 5

\* mark_proxy_failed, mutated: the request threshold is 10
TooManyFailuresLate(s) ==
    2 * s.failures > Max(1, s.requests) /\ s.requests > 10

\* mark_proxy_failed: failure_rate > 0.5 and requests > 5, with
\* failure_rate = failures / max(1, requests)
TooManyFailures(s) ==
    2 * s.failures > Max(1, s.requests) /\ s.requests > 5

\* mark_proxy_failed: the statistics after the call for proxy p
MarkFailedStats(st, p) ==
    IF p \notin DOMAIN st THEN st
    ELSE LET s1 == [st[p] EXCEPT !.failures = @ + 1] IN
         [st EXCEPT ![p] = IF TooManyFailures(s1)
                           THEN [s1 EXCEPT !.active = FALSE] ELSE s1]

\* mark_proxy_success, mutated: a success re-enables the proxy
MarkSuccessStatsReenable(st, p, rt) ==
    IF p \notin DOMAIN st THEN st
    ELSE [st EXCEPT ![p].response_time = rt, ![p].active = TRUE]

\* mark_proxy_success: the statistics after the call for proxy p
MarkSuccessStats(st, p, rt) ==
    IF p \notin DOMAIN st THEN st
    ELSE [st EXCEPT ![p].response_time = rt]

\* a call of get_proxy on the pool
get_proxy ==
    /\ \E o \in GetProxyOutcomes(proxies, current_proxy_index, proxy_stats,
                                 config.proxy_rotation, now) :
          /\ last_call' = [op |-> "get_proxy", arg |-> None, ret |-> o.ret]
          /\ current_proxy_index' = o.index
          /\ proxy_stats' = o.stats
    /\ UNCHANGED <<config, handler_call, walkVars, now, proxies>>
    /\ UNCHANGED otherVars

\* a call of mark_proxy_failed(p)
mark_proxy_failed(p) ==
    /\ proxy_stats' = MarkFailedStats(proxy_stats, p)
    /\ last_call' = [op |-> "mark_proxy_failed", arg |-> p, ret |-> None]
    /\ UNCHANGED <<config, handler_call, walkVars, now, proxies, current_proxy_index>>
    /\ UNCHANGED otherVars

\* a call of mark_proxy_success(p, response_time)
mark_proxy_success(p, rt) ==
    /\ proxy_stats' = MarkSuccessStats(proxy_stats, p, rt)
    /\ last_call' = [op |-> "mark_proxy_success", arg |-> p, ret |-> None]
    /\ UNCHANGED <<config, handler_call, walkVars, now, proxies, current_proxy_index>>
    /\ UNCHANGED otherVars

\* a call of add_proxy(p)
add_proxy(p) ==
    /\ IF p \notin Range(proxies)
       THEN /\ proxies' = Append(proxies, p)
            /\ proxy_stats' = [q \in DOMAIN proxy_stats \cup {p} |->
                                 IF q = p THEN NewProxyStats ELSE proxy_stats[q]]
       ELSE UNCHANGED <<proxies, proxy_stats>>
    /\ last_call' = [op |-> "add_proxy", arg |-> p, ret |-> None]
    /\ UNCHANGED <<config, handler_call, walkVars, now, current_proxy_index>>
    /\ UNCHANGED otherVars

\* list.remove: drops the first occurrence of p
RemoveFirst(s, p) ==
    LET i == CHOOSE k \in DOMAIN s : s[k] = p /\ \A j \in 1..(k - 1) : s[j] # p
    IN  [j \in 1..(Len(s) - 1) |-> IF j < i THEN s[j] ELSE s[j + 1]]

\* a call of remove_proxy(p)
remove_proxy(p) ==
    /\ IF p \in Range(proxies)
       THEN /\ proxies' = RemoveFirst(proxies, p)
            /\ proxy_stats' = [q \in DOMAIN proxy_stats \ {p} |-> proxy_stats[q]]
       ELSE UNCHANGED <<proxies, proxy_stats>>
    /\ last_call' = [op |-> "remove_proxy", arg |-> p, ret |-> None]
    /\ UNCHANGED <<config, handler_call, walkVars, now, current_proxy_index>>
    /\ UNCHANGED otherVars

\* a call of reset_proxy_stats()
reset_proxy_stats ==
    /\ proxy_stats' = [q \in DOMAIN proxy_stats |-> NewProxyStats]
    /\ last_call' = [op |-> "reset_proxy_stats", arg |-> None, ret |-> None]
    /\ UNCHANGED <<config, handler_call, walkVars, now, proxies, current_proxy_index>>
    /\ UNCHANGED otherVars

(***************************************************************************)
(* Configuration                                                           *)
(***************************************************************************)
\* time.time() when the instance is constructed
StartTime == 10

\* ScrapingConfig(): the defaults of the dataclass
DefaultConfig ==
    [base_delay |-> 1, crawl_delay |-> Nil, concurrent_requests |-> 10,
     use_proxies |-> FALSE, proxy_list |-> <<>>, proxy_rotation |-> TRUE,
     respect_robots_txt |-> TRUE, max_retries |-> 3]

\* the proxy lists a configuration may hold
ProxyLists == SeqUpTo(Proxies, MaxProxies)

(***************************************************************************)
(* URLs and pages                                                          *)
(***************************************************************************)
Hosts == {"h1", "h2"}
Paths == {"/a", "/b"}
\* the URLs of the model: two pages of one host and one page of another
Urls ==
    {[host |-> "h1", path |-> "/a"], [host |-> "h1", path |-> "/b"],
     [host |-> "h2", path |-> "/a"]}
\* the titles a fetched page may carry
Titles == {"t1"}

\* _get_robots_parser: domain = scheme://netloc of the URL
DomainOf(u) == u.host

(***************************************************************************)
(* RateLimiter                                                             *)
(***************************************************************************)
\* RateLimiter.__init__
RateLimiterInit ==
    /\ last_request_time = 0
    /\ request_count = 0

\* wait_sync / wait_async, mutated: config.crawl_delay is not looked at
MinDelayBaseOnly(cfg) == cfg.base_delay

\* wait_sync / wait_async: min_delay = base_delay, raised to
\* config.crawl_delay when that is set
MinDelay(cfg) ==
    IF Truthy(cfg.crawl_delay) THEN Max(cfg.base_delay, cfg.crawl_delay[1])
    ELSE cfg.base_delay

\* wait_sync / wait_async: how long the call sleeps when it reads the clock at
\* t and last_request_time is last
SleepTime(cfg, t, last) ==
    IF t - last < MinDelay(cfg) THEN MinDelay(cfg) - (t - last) ELSE 0

(***************************************************************************)
(* robots.txt                                                              *)
(***************************************************************************)
\* the Crawl-delay a robots.txt of the model may declare
RobotsDelay == 3

\* urllib.robotparser.RobotFileParser after read() returned:
\*   HTTP 401/403 sets disallow_all, another 4xx sets allow_all, a 5xx leaves
\*   the parser unread, and a fetched file is parsed (last_checked set) into
\*   the disallowed paths and the Crawl-delay of the agent group
ParserStates ==
    {[disallow_all |-> TRUE, allow_all |-> FALSE, last_checked |-> FALSE,
      disallow |-> {}, delay |-> Nil],
     [disallow_all |-> FALSE, allow_all |-> TRUE, last_checked |-> FALSE,
      disallow |-> {}, delay |-> Nil],
     [disallow_all |-> FALSE, allow_all |-> FALSE, last_checked |-> FALSE,
      disallow |-> {}, delay |-> Nil]}
    \cup
    {[disallow_all |-> FALSE, allow_all |-> FALSE, last_checked |-> TRUE,
      disallow |-> {"/b"}, delay |-> <<RobotsDelay>>]}

\* rp.read(): it raises (timeout, network error) or leaves a parser state
ReadRaised == [raised |-> TRUE]
ReadOutcomes == {ReadRaised} \cup ParserStates

\* robots_parser.can_fetch(user_agent, url)
ParserCanFetch(rp, u) ==
    IF rp.disallow_all THEN FALSE
    ELSE IF rp.allow_all THEN TRUE
    ELSE IF ~rp.last_checked THEN FALSE
    ELSE u.path \notin rp.disallow

\* robots_parser.crawl_delay(user_agent)
ParserCrawlDelay(rp) == IF ~rp.last_checked THEN Nil ELSE rp.delay

\* _get_robots_parser, mutated: the unread parser is cached when read() raises
FailedLoadEntryUnread ==
    [disallow_all |-> FALSE, allow_all |-> FALSE, last_checked |-> FALSE,
     disallow |-> {}, delay |-> Nil]

\* _get_robots_parser: what is cached when read() raises
FailedLoadEntry == Nil

\* _get_robots_parser, mutated: a domain whose load failed is loaded again
LoadsRobotsRetryFailed(cache, cfg, u) ==
    /\ cfg.respect_robots_txt
    /\ DomainOf(u) \in DOMAIN cache => cache[DomainOf(u)] = FailedLoadEntry

\* _get_robots_parser: whether the call for u loads robots.txt
LoadsRobots(cache, cfg, u) ==
    cfg.respect_robots_txt /\ DomainOf(u) \notin DOMAIN cache

\* _get_robots_parser: the cache after the call for URL u, when rp.read() (if
\* it runs) ends as o
CacheAfterLookup(cache, cfg, u, o) ==
    IF ~LoadsRobots(cache, cfg, u) THEN cache
    ELSE [d \in DOMAIN cache \cup {DomainOf(u)} |->
             IF d # DomainOf(u) THEN cache[d]
             ELSE IF o = ReadRaised THEN FailedLoadEntry ELSE o]

\* _get_robots_parser: the value returned for u once cache holds its domain
RobotsParserOf(cache, cfg, u) ==
    IF ~cfg.respect_robots_txt THEN Nil ELSE cache[DomainOf(u)]

\* _can_fetch
CanFetch(cache, cfg, u) ==
    LET rp == RobotsParserOf(cache, cfg, u) IN
    IF rp = Nil THEN TRUE ELSE ParserCanFetch(rp, u)

\* _get_crawl_delay
GetCrawlDelay(cache, cfg, u) ==
    LET rp == RobotsParserOf(cache, cfg, u) IN
    IF rp = Nil THEN Nil ELSE ParserCrawlDelay(rp)

(***************************************************************************)
(* DataProcessor                                                           *)
(***************************************************************************)
\* the keys a record may carry, in the order sort_keys=True puts them
SortedKeys == <<"status_code", "timestamp", "title", "url">>

\* json.dumps(data, sort_keys=True) of a dictionary: its items in key order
Dumps(data) ==
    LET keys == SelectSeq(SortedKeys, LAMBDA k : k \in DOMAIN data)
    IN  [i \in 1..Len(keys) |-> <<keys[i], data[keys[i]]>>]

\* calculate_hash: the md5 digest of json.dumps(data, sort_keys=True); the
\* digest stands for the canonical serialisation (no collisions)
CalculateHash(data) == Dumps(data)

\* is_duplicate, mutated: the membership test runs on a set read before the
\* other workers inserted (the test and the insertion are interleaved)
IsDuplicateStale(seen, data) == CalculateHash(data) \in {}

\* is_duplicate: the return value
IsDuplicate(seen, data) == CalculateHash(data) \in seen

\* is_duplicate, mutated: only the hash of the last record is remembered
SeenAfterLastOnly(seen, data) == {CalculateHash(data)}

\* is_duplicate: seen_hashes after the call
SeenAfter(seen, data) == seen \cup {CalculateHash(data)}

\* is_duplicate: duplicate_count after the call
DuplicateCountAfter(seen, n, data) == IF IsDuplicate(seen, data) THEN n + 1 ELSE n

\* the call is_duplicate(data)
is_duplicate(data) ==
    /\ seen_hashes' = SeenAfter(seen_hashes, data)
    /\ duplicate_count' = DuplicateCountAfter(seen_hashes, duplicate_count, data)
    /\ submitted' = Append(submitted, [data |-> data,
                                       ret |-> IsDuplicate(seen_hashes, data)])

(***************************************************************************)
(* Construction                                                            *)
(***************************************************************************)
\* no scrape_multiple_urls_async call was made yet
NoBatch ==
    /\ batch = [state |-> "idle", urls |-> <<>>, max_concurrent |-> Nil,
                returned |-> <<>>, errors_before |-> 0]
    /\ semaphore = 0
    /\ pc = <<>>
    /\ wake = <<>>
    /\ task_ret = <<>>

\* no scrape_with_pagination call was made yet
NoWalk ==
    [state |-> "idle", start_url |-> Nil, max_pages |-> Nil, current_url |-> Nil,
     page_count |-> 0, all_results |-> <<>>, visited |-> <<>>]

\* a site: the URL the next link of each page resolves to (Nil: no next link)
Sites == [Urls -> Urls \cup {Nil}]

NoLinks == [u \in Urls |-> Nil]

\* WebScraper.__init__ with configuration cfg, on a site with the given links:
\* HTMLScraper (BaseScraper) with its SessionManager, RateLimiter and
\* ProxyManager, and the DataProcessor
ScraperInitOn(cfg, links) ==
    /\ config = cfg
    /\ now = StartTime
    /\ RateLimiterInit
    /\ ProxyManagerInit(IF cfg.use_proxies THEN cfg
                        ELSE [cfg EXCEPT !.proxy_list = <<>>])
    /\ robots_cache = <<>>
    /\ stats = [requests_made |-> 0, successful_requests |-> 0,
                failed_requests |-> 0]
    /\ attempts = 0
    /\ seen_hashes = {}
    /\ duplicate_count = 0
    /\ submitted = <<>>
    /\ results = <<>>
    /\ errors = <<>>
    /\ NoBatch
    /\ walk = NoWalk
    /\ site = links
    /\ robots_failed = {}
    /\ robots_loads = <<>>
    /\ handler_call = [op |-> "none"]
    /\ async_session = [state |-> "none", held_by |-> {}, orphans |-> {}]
    /\ dispatch_log = <<>>
    /\ last_outcome = [n |-> 0, url |-> Nil, kind |-> None]

\* the same on a site whose pages carry no next link
ScraperInit(cfg) == ScraperInitOn(cfg, NoLinks)

(***************************************************************************)
(* A ProxyManager used on its own: get_proxy and the two health reports    *)
(***************************************************************************)
SumRequests(st) ==
    LET RECURSIVE S(_)
        S(D) == IF D = {} THEN 0
                ELSE LET p == CHOOSE q \in D : TRUE IN st[p].requests + S(D \ {p})
    IN S(DOMAIN st)

SumFailures(st) ==
    LET RECURSIVE S(_)
        S(D) == IF D = {} THEN 0
                ELSE LET p == CHOOSE q \in D : TRUE IN st[p].failures + S(D \ {p})
    IN S(DOMAIN st)

InitProxy ==
    \E pl \in ProxyLists, rot \in BOOLEAN :
        ScraperInit([DefaultConfig EXCEPT !.use_proxies = TRUE, !.proxy_list = pl,
                                          !.proxy_rotation = rot])

ProxyGet ==
    /\ get_proxy
    /\ \A p \in DOMAIN proxy_stats : proxy_stats'[p].requests <= MaxRequests

ProxyFailed ==
    \E p \in Proxies :
        /\ p \in DOMAIN proxy_stats => proxy_stats[p].failures < MaxFailures
        /\ mark_proxy_failed(p)

ProxySuccess == \E p \in Proxies, rt \in ResponseTimes : mark_proxy_success(p, rt)

NextProxy == ProxyGet \/ ProxyFailed \/ ProxySuccess

SpecProxy == InitProxy /\ [][NextProxy]_vars

(***************************************************************************)
(* A ProxyManager used on its own, with every operation of the class       *)
(***************************************************************************)
PoolGet ==
    /\ get_proxy
    /\ SumRequests(proxy_stats') <= MaxPoolRequests
    /\ current_proxy_index' <= MaxIndex

PoolFailed ==
    \E p \in Proxies :
        /\ SumFailures(proxy_stats) < MaxPoolFailures
        /\ mark_proxy_failed(p)

PoolSuccess == \E p \in Proxies, rt \in ResponseTimes : mark_proxy_success(p, rt)

PoolAdd == \E p \in Proxies : Len(proxies) < MaxProxies /\ add_proxy(p)

PoolRemove == \E p \in Proxies : remove_proxy(p)

PoolReset == reset_proxy_stats

NextPool ==
    PoolGet \/ PoolFailed \/ PoolSuccess \/ PoolAdd \/ PoolRemove \/ PoolReset

SpecPool == InitProxy /\ [][NextPool]_vars

(***************************************************************************)
(* BaseScraper: one request                                                *)
(***************************************************************************)
\* how much longer than asked time.sleep may take
SleepJitter == {0, 1}
\* how the HTTP exchange of a request ends: status 200, another status, or an
\* exception (transport error, timeout)
FetchOutcomes == {"Success", "HttpError", "NetworkError"}
\* how processing the response body ends in scrape_sync / scrape_async
ParseOutcomes == {"parsed", "parse_error"}

\* how many times the HTTPAdapter of the sync session, mounted with
\* max_retries = config.max_retries, may send one request: once, and once
\* more after each failed connection, inside session.request
AdapterAttempts(cfg) == 1..(1 + cfg.max_retries)

\* _make_request_*, mutated: the rate limiter is passed before robots is asked
RequestStagesGateFirst(allowed) ==
    IF allowed THEN {"wait", "fetch"} ELSE {"wait"}

\* _make_request_sync / _make_request_async: the stages a request passes
\* after _can_fetch answered, "wait" (the rate limiter) and "fetch" (proxy
\* selection and the HTTP exchange); a denied request returns None at once
RequestStages(allowed) ==
    IF allowed THEN {"wait", "fetch"} ELSE {}

\* how rp.read() may end in _get_robots_parser for u; it does not run when
\* the domain is cached (it then counts as ReadRaised, which changes nothing)
ReadChoices(u) ==
    IF LoadsRobots(robots_cache, config, u) THEN ReadOutcomes ELSE {ReadRaised}

\* _get_robots_parser as called by _can_fetch for u, rp.read() (if it runs)
\* ending as o
RobotsLookup(u, o) ==
    /\ robots_cache' = CacheAfterLookup(robots_cache, config, u, o)
    /\ robots_failed' =
         IF LoadsRobots(robots_cache, config, u) /\ o = ReadRaised
         THEN robots_failed \cup {DomainOf(u)} ELSE robots_failed
    /\ robots_loads' =
         IF LoadsRobots(robots_cache, config, u)
         THEN [d \in DOMAIN robots_loads \cup {DomainOf(u)} |->
                  IF d = DomainOf(u)
                  THEN 1 + (IF d \in DOMAIN robots_loads THEN robots_loads[d] ELSE 0)
                  ELSE robots_loads[d]]
         ELSE robots_loads

\* the return of rate_limiter.wait_sync / wait_async at time t for URL u
WaitReturn(u, t, via) ==
    /\ last_request_time' = t
    /\ request_count' = request_count + 1
    /\ dispatch_log' = Append(dispatch_log, [host |-> u.host, at |-> t, via |-> via])

\* what proxy_manager.get_proxy() may do for a request at time t; without a
\* ProxyManager the proxy is None
ProxyChoices(t) ==
    IF config.use_proxies
    THEN GetProxyOutcomes(proxies, current_proxy_index, proxy_stats,
                          config.proxy_rotation, t)
    ELSE {[ret |-> None, index |-> current_proxy_index, stats |-> proxy_stats]}

\* proxy = self.proxy_manager.get_proxy(), the call doing g
SelectProxy(g) ==
    IF config.use_proxies
    THEN /\ current_proxy_index' = g.index
         /\ proxy_stats' = g.stats
         /\ last_call' = [op |-> "get_proxy", arg |-> None, ret |-> g.ret]
         /\ UNCHANGED proxies
    ELSE UNCHANGED proxyVars

\* get_proxy raised inside a request call
Raised == "Raised"

\* self.stats['requests_made'] += 1, before the exchange
StatsRequested(st) == [st EXCEPT !.requests_made = @ + 1]

\* stats once the exchange ended as resp
StatsResponded(st, resp) ==
    IF resp = "Success"
    THEN [st EXCEPT !.successful_requests = @ + 1]
    ELSE [st EXCEPT !.failed_requests = @ + 1]

\* stats after the whole exchange of a request, ended as resp
StatsAfter(st, resp) == StatsResponded(StatsRequested(st), resp)

\* the record of a finished request call
Outcome(u, kind) == [n |-> last_outcome.n + 1, url |-> u, kind |-> kind]

\* _make_request_sync(u), ending as resp: RobotsDenied, a fetch outcome, or
\* Raised when get_proxy raised.  The time the exchange takes is left to Tick.
MakeRequestSync(u, resp) ==
    \E o \in ReadChoices(u) :
        /\ RobotsLookup(u, o)
        /\ LET stages == RequestStages(CanFetch(robots_cache', config, u))
               slept  == SleepTime(config, now, last_request_time)
           IN
           \E jitter \in IF "wait" \in stages /\ slept > 0 THEN SleepJitter ELSE {0} :
           LET t1 == IF "wait" \in stages THEN now + slept + jitter ELSE now IN
           /\ now' = t1
           /\ IF "wait" \in stages THEN WaitReturn(u, t1, "sync")
              ELSE UNCHANGED <<rateVars, dispatch_log>>
           /\ IF "fetch" \in stages
              THEN \E g \in ProxyChoices(t1) :
                     /\ SelectProxy(g)
                     /\ IF g.ret = KeyError
                        THEN resp = Raised /\ UNCHANGED <<stats, attempts>>
                        ELSE /\ resp \in FetchOutcomes
                             /\ stats' = StatsAfter(stats, resp)
                             /\ \E n \in AdapterAttempts(config) :
                                    attempts' = attempts + n
              ELSE /\ resp = "RobotsDenied"
                   /\ UNCHANGED <<proxyVars, stats, attempts>>
        /\ last_outcome' = Outcome(u, resp)

(***************************************************************************)
(* WebScraper.scrape_single_url (html scraper, no browser)                 *)
(***************************************************************************)
\* the result dictionary of scrape_sync / scrape_async
Result(u, title, t) ==
    [url |-> u, status_code |-> 200, title |-> title, timestamp |-> t]

\* the entry scrape_single_url appends to errors
ErrorEntry(u, resp) ==
    [url |-> u,
     error |-> IF resp = Raised THEN "exception" ELSE "No result returned"]

\* scrape_single_url / scrape_single_url_async after scrape_sync /
\* scrape_async returned result (None: no result)
Collect(u, result, resp) ==
    IF result # Nil
    THEN /\ is_duplicate(result)
         /\ results' = IF IsDuplicate(seen_hashes, result) THEN results
                       ELSE Append(results, result)
         /\ UNCHANGED errors
    ELSE /\ errors' = Append(errors, ErrorEntry(u, resp))
         /\ UNCHANGED <<seen_hashes, submitted, duplicate_count, results>>

\* scrape_single_url(u): the value returned
ScrapeReturn(u, resp, po, title) ==
    IF resp = "Success" /\ po = "parsed" THEN Result(u, title, now') ELSE Nil

\* the body of scrape_single_url(u): the request ends as resp, processing the
\* page as po
ScrapeSingleUrl(u, resp, po, title) ==
    /\ MakeRequestSync(u, resp)
    /\ Collect(u, ScrapeReturn(u, resp, po, title), resp)

\* how a scrape_single_url call may go: request outcome, processing outcome
\* (only after status 200) and page title
ScrapeChoices ==
    {c \in (FetchOutcomes \cup {"RobotsDenied", Raised}) \X ParseOutcomes \X Titles :
        c[1] # "Success" => c[2] = "parse_error"}

\* scrape_single_url(u), called on its own
scrape_single_url(u) ==
    /\ batch.state # "running"
    /\ walk.state \in {"idle", "done"}
    /\ \E c \in ScrapeChoices : ScrapeSingleUrl(u, c[1], c[2], c[3])
    /\ UNCHANGED <<config, handler_call, walkVars, batchVars>>

\* a direct call of _can_fetch(u) or _get_crawl_delay(u) that loads robots.txt
robots_lookup(u) ==
    /\ batch.state # "running"
    /\ LoadsRobots(robots_cache, config, u)
    /\ \E o \in ReadChoices(u) : RobotsLookup(u, o)
    /\ UNCHANGED <<config, handler_call, walkVars, now, proxyVars, rateVars, stats, attempts,
                   dataVars,
                   batchVars,
                   dispatch_log, last_outcome>>

(***************************************************************************)
(* WebScraper.scrape_with_pagination (html scraper, no browser)            *)
(***************************************************************************)
\* the loop condition, mutated: max_pages is not looked at
LoopConditionNoCeiling(w) == w.current_url # Nil

\* while current_url and (not max_pages or page_count < max_pages)
LoopCondition(w) ==
    /\ w.current_url # Nil
    /\ (~Truthy(w.max_pages) \/ w.page_count < w.max_pages[1])

\* the walk at the top of the loop: another iteration, or return all_results
WalkLoop(w) ==
    [w EXCEPT !.state = IF LoopCondition(w) THEN "scrape" ELSE "done"]

\* get_next_page_url(soup, current_url) on the page of u: the URL its next
\* link resolves to, or None
GetNextPageUrl(links, u) == links[u]

\* the test on next_url, mutated: a link to the current page is followed
FollowsNextAlways(next_url, current_url) == next_url # Nil

\* next_url and next_url != current_url
FollowsNext(next_url, current_url) == next_url # Nil /\ next_url # current_url

\* the call scrape_with_pagination(start, max_pages = mp) up to the loop
scrape_with_pagination(start, mp) ==
    /\ walk.state = "idle"
    /\ batch.state # "running"
    /\ walk' = WalkLoop([NoWalk EXCEPT !.start_url = start, !.max_pages = mp,
                                       !.current_url = start])
    /\ UNCHANGED <<config, handler_call, now, proxyVars, rateVars, robots_cache, stats, attempts,
                   dataVars, batchVars, site, robots_failed, robots_loads, dispatch_log,
                   last_outcome>>

\* one iteration, first part: page_count += 1 and
\* result = self.scrape_single_url(current_url); no result ends the walk
WalkScrapePage ==
    /\ walk.state = "scrape"
    /\ \E c \in ScrapeChoices :
         /\ ScrapeSingleUrl(walk.current_url, c[1], c[2], c[3])
         /\ LET result == ScrapeReturn(walk.current_url, c[1], c[2], c[3]) IN
            walk' = [walk EXCEPT
                       !.page_count = @ + 1,
                       !.visited = Append(@, walk.current_url),
                       !.all_results = IF result # Nil THEN Append(@, result) ELSE @,
                       !.state = IF result # Nil THEN "analyse" ELSE "done"]
    /\ UNCHANGED <<config, handler_call, site, batchVars>>

\* one iteration, second part: the page is requested again for pagination
\* analysis and the next link is looked up; the walk moves to it, or ends
WalkAnalysePage ==
    /\ walk.state = "analyse"
    /\ \E resp \in FetchOutcomes \cup {"RobotsDenied", Raised} :
         /\ MakeRequestSync(walk.current_url, resp)
         /\ LET next_url == GetNextPageUrl(site, walk.current_url) IN
            walk' = IF resp = Raised THEN [walk EXCEPT !.state = "raised"]
                    ELSE IF resp = "Success" /\ FollowsNext(next_url, walk.current_url)
                    THEN [walk EXCEPT !.current_url = next_url, !.state = "sleep"]
                    ELSE [walk EXCEPT !.state = "done"]
    /\ UNCHANGED <<config, handler_call, site, dataVars, batchVars>>

\* one iteration, last part: time.sleep(self.config.base_delay), then the
\* loop condition
WalkSleepOver ==
    /\ walk.state = "sleep"
    /\ now' = now + config.base_delay
    /\ walk' = WalkLoop(walk)
    /\ UNCHANGED <<config, handler_call, proxyVars, rateVars, robots_cache, stats, attempts,
                   dataVars,
                   batchVars, site, robots_failed, robots_loads, dispatch_log, last_outcome>>

(***************************************************************************)
(* WebScraper.scrape_multiple_urls_async                                   *)
(***************************************************************************)
\* scrape_multiple_urls_async, mutated: the max_concurrent argument is ignored
SemaphoreInitConfigOnly(mc, cfg) == cfg.concurrent_requests

\* max_concurrent = max_concurrent or self.config.concurrent_requests;
\* semaphore = asyncio.Semaphore(max_concurrent)
SemaphoreInit(mc, cfg) == IF Truthy(mc) THEN mc[1] ELSE cfg.concurrent_requests

\* the loop over the gathered results: only the dictionaries are kept
ValidResults(rets) == SelectSeq(rets, LAMBDA r : r # Nil)

\* the call scrape_multiple_urls_async(us, max_concurrent = mc) up to gather
scrape_multiple_urls_async(us, mc) ==
    /\ batch.state = "idle"
    /\ batch' = [state |-> "running", urls |-> us, max_concurrent |-> mc,
                 returned |-> <<>>, errors_before |-> Len(errors)]
    /\ semaphore' = SemaphoreInit(mc, config)
    /\ pc' = [t \in 1..Len(us) |-> "pending"]
    /\ wake' = [t \in 1..Len(us) |-> 0]
    /\ task_ret' = [t \in 1..Len(us) |-> Nil]
    /\ UNCHANGED <<config, handler_call, walkVars, now, proxyVars, rateVars, robots_cache,
                   stats, attempts, async_session,
                   dataVars, robots_failed, robots_loads, dispatch_log, last_outcome>>

\* task t leaves scrape_single_url_async with ret: the semaphore is released
TaskDoneLeakOnFailure(t, ret, sem) ==
    /\ pc' = [pc EXCEPT ![t] = "done"]
    /\ task_ret' = [task_ret EXCEPT ![t] = ret]
    /\ semaphore' = IF ret = Nil THEN sem ELSE sem + 1

TaskDone(t, ret, sem) ==
    /\ pc' = [pc EXCEPT ![t] = "done"]
    /\ task_ret' = [task_ret EXCEPT ![t] = ret]
    /\ semaphore' = sem + 1

\* get_async_session() by task t: the session is created when there is none or
\* when the last one is closed; the task then awaits its request on it
SessionEntered(s, t) ==
    IF s.state = "open" THEN [s EXCEPT !.held_by = @ \cup {t}]
    ELSE [s EXCEPT !.state = "open", !.held_by = {t}]

\* task t leaves 'async with get_async_session() as session': the session
\* object it entered is closed, under every other task still in flight on it
SessionExited(s, t) ==
    IF t \in s.orphans THEN [s EXCEPT !.orphans = @ \ {t}]
    ELSE [state |-> "closed", held_by |-> {},
          orphans |-> s.orphans \cup (s.held_by \ {t})]

\* task t is past wait_async at time now: proxy selection, then the request
\* is awaited (sem is the semaphore with the task's slot taken)
Dispatch(t, sem) ==
    LET u == batch.urls[t] IN
    /\ WaitReturn(u, now, "async")
    /\ \E g \in ProxyChoices(now) :
         /\ SelectProxy(g)
         /\ IF g.ret = KeyError
            THEN /\ TaskDone(t, Nil, sem)
                 /\ errors' = Append(errors, ErrorEntry(u, Raised))
                 /\ last_outcome' = Outcome(u, Raised)
                 /\ UNCHANGED <<stats, attempts, async_session>>
            ELSE /\ pc' = [pc EXCEPT ![t] = "requesting"]
                 /\ async_session' = SessionEntered(async_session, t)
                 /\ semaphore' = sem
                 /\ stats' = StatsRequested(stats)
                 /\ attempts' = attempts + 1
                 /\ UNCHANGED <<task_ret, errors, last_outcome>>

\* task t acquires the semaphore (waiters are served in input order) and runs
\* to its first suspension: robots check, then wait_async, which sleeps or
\* returns at once
TaskStart(t) ==
    /\ batch.state = "running"
    /\ pc[t] = "pending"
    /\ semaphore > 0
    /\ \A s \in 1..(t - 1) : pc[s] # "pending"
    /\ LET u == batch.urls[t] IN
       \E o \in ReadChoices(u) :
         /\ RobotsLookup(u, o)
         /\ LET stages == RequestStages(CanFetch(robots_cache', config, u))
                slept  == SleepTime(config, now, last_request_time)
            IN
            IF "fetch" \notin stages
            THEN /\ TaskDone(t, Nil, semaphore - 1)
                 /\ errors' = Append(errors, ErrorEntry(u, "RobotsDenied"))
                 /\ last_outcome' = Outcome(u, "RobotsDenied")
                 /\ IF "wait" \in stages THEN WaitReturn(u, now, "async")
                    ELSE UNCHANGED <<rateVars, dispatch_log>>
                 /\ UNCHANGED <<proxyVars, wake, stats, attempts, async_session>>
            ELSE IF slept > 0
            THEN /\ pc' = [pc EXCEPT ![t] = "sleeping"]
                 /\ wake' = [wake EXCEPT ![t] = now + slept]
                 /\ semaphore' = semaphore - 1
                 /\ UNCHANGED <<proxyVars, rateVars, dispatch_log, task_ret,
                                errors, last_outcome, stats, attempts,
                                async_session>>
            ELSE /\ Dispatch(t, semaphore - 1)
                 /\ UNCHANGED wake
    /\ UNCHANGED <<config, handler_call, walkVars, now, batch, seen_hashes, submitted,
       duplicate_count, results>>

\* asyncio.sleep of task t is over: wait_async stores the time and returns
TaskWake(t) ==
    /\ batch.state = "running"
    /\ pc[t] = "sleeping"
    /\ now >= wake[t]
    /\ Dispatch(t, semaphore)
    /\ UNCHANGED <<config, handler_call, walkVars, now, batch, wake, robots_cache,
                   robots_failed, robots_loads, seen_hashes, submitted,
                   duplicate_count, results>>

\* the awaited request of task t ends as resp, with an exception when the
\* session was closed under it, and the task leaves both 'async with' blocks
TaskRespond(t) ==
    /\ batch.state = "running"
    /\ pc[t] = "requesting"
    /\ \E resp \in IF t \in async_session.orphans THEN {"NetworkError"}
                    ELSE FetchOutcomes :
         /\ async_session' = SessionExited(async_session, t)
         /\ stats' = StatsResponded(stats, resp)
         /\ UNCHANGED attempts
         /\ last_outcome' = Outcome(batch.urls[t], resp)
         /\ IF resp = "Success"
            THEN /\ pc' = [pc EXCEPT ![t] = "reading"]
                 /\ UNCHANGED <<task_ret, semaphore, errors>>
            ELSE /\ TaskDone(t, Nil, semaphore)
                 /\ errors' = Append(errors, ErrorEntry(batch.urls[t], resp))
    /\ UNCHANGED <<config, handler_call, walkVars, now, batch, wake, proxyVars, rateVars,
                   robots_cache,
                   robots_failed, robots_loads, dispatch_log, seen_hashes, submitted,
                      duplicate_count,
                   results>>

\* await response.text() of task t ends, the page is processed and
\* scrape_single_url_async collects the result
TaskRead(t) ==
    /\ batch.state = "running"
    /\ pc[t] = "reading"
    /\ \E po \in ParseOutcomes, title \in Titles :
         LET result == IF po = "parsed" THEN Result(batch.urls[t], title, now)
                       ELSE Nil
         IN  /\ Collect(batch.urls[t], result, "Success")
             /\ TaskDone(t, result, semaphore)
    /\ UNCHANGED <<config, handler_call, walkVars, now, batch, wake, proxyVars, rateVars,
                   robots_cache,
                   robots_failed, robots_loads, dispatch_log, stats, attempts,
                   last_outcome, async_session>>

\* asyncio.gather returns once every task is done; the call returns
\* valid_results
Gather ==
    /\ batch.state = "running"
    /\ \A t \in DOMAIN pc : pc[t] = "done"
    /\ batch' = [batch EXCEPT !.state = "returned",
                              !.returned = ValidResults(task_ret)]
    /\ UNCHANGED <<config, handler_call, walkVars, now, proxyVars, rateVars, robots_cache,
                   stats, attempts,
                   dataVars, semaphore, pc, wake, task_ret, async_session,
                   robots_failed, robots_loads, dispatch_log, last_outcome>>

(***************************************************************************)
(* The scraper used sequentially: scrape_single_url calls and direct       *)
(* robots lookups, with time passing between them                          *)
(***************************************************************************)
\* last clock value of the model
MaxTime == 13
\* most scrape_single_url calls
MaxSyncCalls == 2

\* the configurations of the sequential model
SyncConfigs ==
    {[DefaultConfig EXCEPT !.crawl_delay = cd, !.use_proxies = up,
                           !.proxy_list = <<"p1", "p2">>,
                           !.respect_robots_txt = rr, !.max_retries = 0] :
        cd \in {Nil, <<2>>}, up \in BOOLEAN, rr \in BOOLEAN}

InitSync == \E cfg \in SyncConfigs : ScraperInit(cfg)

Tick ==
    /\ now < MaxTime
    /\ now' = now + 1
    /\ UNCHANGED <<config, walkVars, proxyVars, otherVars>>

SyncCall ==
    \E u \in Urls :
        /\ Len(results) + Len(errors) + duplicate_count < MaxSyncCalls
        /\ scrape_single_url(u)
        /\ now' <= MaxTime

LookupCall == \E u \in Urls : robots_lookup(u)

NextSync == Tick \/ SyncCall \/ LookupCall

SpecSync == InitSync /\ [][NextSync]_vars

(***************************************************************************)
(* The scraper used for one concurrent batch                               *)
(***************************************************************************)
\* most URLs of the batch
MaxUrls == 3
\* last clock value of the batch model
MaxBatchTime == 11

\* the configuration of the batch model
\* the URLs of a batch: the pages of one host
BatchUrls == {u \in Urls : u.host = "h1"}

BatchConfig ==
    [DefaultConfig EXCEPT !.concurrent_requests = 2, !.use_proxies = TRUE,
                          !.proxy_list = <<"p1", "p2">>, !.max_retries = 0]

Init == ScraperInit(BatchConfig)

BatchTick ==
    /\ now < MaxBatchTime
    /\ now' = now + 1
    /\ UNCHANGED <<config, walkVars, proxyVars, otherVars>>

BatchCall ==
    \E us \in SeqUpTo(BatchUrls, MaxUrls), mc \in {Nil, <<0>>, <<1>>} :
        scrape_multiple_urls_async(us, mc)

Start == \E t \in DOMAIN pc : TaskStart(t)

Wake == \E t \in DOMAIN pc : TaskWake(t)

Respond == \E t \in DOMAIN pc : TaskRespond(t)

Read == \E t \in DOMAIN pc : TaskRead(t)

Next == BatchTick \/ BatchCall \/ Start \/ Wake \/ Respond \/ Read \/ Gather

Spec == Init /\ [][Next]_vars

(***************************************************************************)
(* The scraper used for one sequential call and then a small batch         *)
(***************************************************************************)
\* most scrape_single_url calls before the batch
MaxMixedCalls == 1
\* most URLs of the batch
MaxMixedUrls == 2

\* last instant of the clock
MaxMixedTime == 11

InitMixed == ScraperInit(BatchConfig)

MixedTick ==
    /\ now < MaxMixedTime
    /\ now' = now + 1
    /\ UNCHANGED <<config, walkVars, proxyVars, otherVars>>

MixedSyncCall ==
    \E u \in Urls :
        /\ batch.state = "idle"
        /\ Len(results) + Len(errors) + duplicate_count < MaxMixedCalls
        /\ scrape_single_url(u)
        /\ now' <= MaxMixedTime

MixedBatchCall ==
    \E us \in SeqUpTo(BatchUrls, MaxMixedUrls) : scrape_multiple_urls_async(us, Nil)

NextMixed ==
    MixedTick \/ MixedSyncCall \/ MixedBatchCall \/ Start \/ Wake \/ Respond \/ Read
         \/ Gather

SpecMixed == InitMixed /\ [][NextMixed]_vars

(***************************************************************************)
(* The DataProcessor alone: a sequence of is_duplicate calls               *)
(***************************************************************************)
\* most is_duplicate calls
MaxSubmissions == 4

\* the records submitted: result dictionaries of two pages at two instants,
\* and dictionaries with fewer keys
DedupRecords ==
    {Result(u, title, t) : u \in BatchUrls, title \in Titles,
                           t \in {StartTime, StartTime + 1}}
        \cup {[url |-> u, title |-> title] : u \in BatchUrls, title \in Titles}

InitDedup == ScraperInit(DefaultConfig)

DedupCall ==
    \E d \in DedupRecords :
        /\ Len(submitted) < MaxSubmissions
        /\ is_duplicate(d)
        /\ UNCHANGED <<config, handler_call, walkVars, now, proxyVars, rateVars,
                       robots_cache, stats, attempts,
                       results, errors, batchVars, robots_failed, robots_loads, dispatch_log,
                       last_outcome>>

NextDedup == DedupCall

SpecDedup == InitDedup /\ [][NextDedup]_vars

(***************************************************************************)
(* A pagination walk over a site                                           *)
(***************************************************************************)
\* most pages a walk scrapes in the model
MaxWalkPages == 4
\* largest max_pages argument
MaxMaxPages == 2

\* the max_pages arguments: None, or a number
MaxPagesArgs == {Nil} \cup {<<m>> : m \in 0..MaxMaxPages}

WalkConfig ==
    [DefaultConfig EXCEPT !.respect_robots_txt = FALSE, !.max_retries = 0]

InitWalk == \E links \in Sites : ScraperInitOn(WalkConfig, links)

WalkCall ==
    \E start \in Urls, mp \in MaxPagesArgs : scrape_with_pagination(start, mp)

WalkScrape == walk.page_count < MaxWalkPages /\ WalkScrapePage

WalkAnalyse == WalkAnalysePage

WalkSleep == WalkSleepOver

NextWalk == WalkCall \/ WalkScrape \/ WalkAnalyse \/ WalkSleep

SpecWalk == InitWalk /\ [][NextWalk]_vars

(***************************************************************************)
(* Sequential requests through a session whose adapter retries             *)
(***************************************************************************)
\* most scrape_single_url calls
MaxRetryCalls == 2
\* last instant of the clock
MaxRetryTime == 12

\* the default max_retries, with and without proxies
RetryConfigs ==
    {[DefaultConfig EXCEPT !.use_proxies = up, !.proxy_list = <<"p1", "p2">>,
                           !.respect_robots_txt = FALSE] : up \in BOOLEAN}

InitRetry == \E cfg \in RetryConfigs : ScraperInit(cfg)

RetryTick ==
    /\ now < MaxRetryTime
    /\ now' = now + 1
    /\ UNCHANGED <<config, proxyVars, otherVars>>

RetryCall ==
    \E u \in Urls :
        /\ Len(results) + Len(errors) + duplicate_count < MaxRetryCalls
        /\ scrape_single_url(u)
        /\ now' <= MaxRetryTime

NextRetry == RetryTick \/ RetryCall

SpecRetry == InitRetry /\ [][NextRetry]_vars

(***************************************************************************)
(* Claims                                                                  *)
(***************************************************************************)
\* every entry of the pool has statistics and is disabled
AllInactive ==
    \A i \in DOMAIN proxies :
        proxies[i] \in DOMAIN proxy_stats /\ ~proxy_stats[proxies[i]].active

\* C7: after any sequence of ProxyManager operations (get_proxy, the two
\* health reports, add_proxy, remove_proxy, reset_proxy_stats), a proxy that
\* get_proxy returns is active, and get_proxy returns None exactly when the
\* pool is empty or every entry of it is inactive.
C7_GetProxyActiveOrNone ==
    last_call.op = "get_proxy" =>
        /\ last_call.ret \in Proxies =>
               /\ last_call.ret \in DOMAIN proxy_stats
               /\ proxy_stats[last_call.ret].active
        /\ last_call.ret = None <=> (proxies = <<>> \/ AllInactive)

\* C7 witness: get_proxy has just returned None on a pool that is not empty
\* and whose entries were all disabled by failure reports.
C7_Witness ==
    /\ last_call.op = "get_proxy"
    /\ last_call.ret = None
    /\ proxies # <<>>
    /\ AllInactive

\* C8 as stated: in every state reached by get_proxy, mark_proxy_failed and
\* mark_proxy_success calls, every proxy whose failures/requests > 0.5 and
\* whose requests > 5 is inactive.
C8_Original ==
    \A p \in DOMAIN proxy_stats :
        (2 * proxy_stats[p].failures > proxy_stats[p].requests
            /\ proxy_stats[p].requests > 5)
        => ~proxy_stats[p].active

\* C8 amended: right after a mark_proxy_failed(p) call, p is inactive when its
\* failures/requests > 0.5 and its requests > 5; so a proxy with 10 requests
\* is inactive once its 6th failure is reported.
C8_DisabledAtFailureReport ==
    (last_call.op = "mark_proxy_failed" /\ last_call.arg \in DOMAIN proxy_stats) =>
        LET s == proxy_stats[last_call.arg] IN
        /\ (2 * s.failures > s.requests /\ s.requests > 5) => ~s.active
        /\ (s.requests = 10 /\ s.failures >= 6) => ~s.active

\* C8 witness: the 6th failure of a proxy with 10 requests was just reported
\* and the proxy is disabled.
C8_Witness ==
    /\ last_call.op = "mark_proxy_failed"
    /\ last_call.arg \in DOMAIN proxy_stats
    /\ proxy_stats[last_call.arg].requests = 10
    /\ proxy_stats[last_call.arg].failures = 6
    /\ ~proxy_stats[last_call.arg].active

\* C9: a proxy turns from active to inactive only in a mark_proxy_failed call
\* for that proxy after which both failures/requests > 0.5 and requests > 5
\* hold; a proxy with 5 requests or fewer is never disabled.
C9_DisableNeedsBoth ==
    [][\A p \in DOMAIN proxy_stats :
          (proxy_stats[p].active /\ ~proxy_stats'[p].active) =>
              /\ last_call'.op = "mark_proxy_failed"
              /\ last_call'.arg = p
              /\ proxy_stats'[p].requests > 5
              /\ 2 * proxy_stats'[p].failures > proxy_stats'[p].requests]_vars

\* C9 witness: the 4th failure of a proxy with 4 requests was just reported
\* and the proxy is still active.
C9_Witness ==
    /\ last_call.op = "mark_proxy_failed"
    /\ last_call.arg \in DOMAIN proxy_stats
    /\ proxy_stats[last_call.arg].requests = 4
    /\ proxy_stats[last_call.arg].failures = 4
    /\ proxy_stats[last_call.arg].active

\* C10: once a proxy is inactive, no get_proxy, mark_proxy_failed or
\* mark_proxy_success call makes it active again, and get_proxy does not
\* return it.
C10_DisablementOneWay ==
    [][\A p \in DOMAIN proxy_stats :
          ~proxy_stats[p].active =>
              /\ ~proxy_stats'[p].active
              /\ last_call'.ret # p]_vars

\* C10 witness: a success was just reported for a disabled proxy, which is
\* still disabled.
C10_Witness ==
    /\ last_call.op = "mark_proxy_success"
    /\ last_call.arg \in DOMAIN proxy_stats
    /\ ~proxy_stats[last_call.arg].active
    /\ proxy_stats[last_call.arg].response_time \in ResponseTimes

\* the tasks of the batch between semaphore acquire and release
InFlight ==
    Cardinality({t \in DOMAIN pc : pc[t] \in {"sleeping", "requesting", "reading"}})

\* the limit of the running call: max_concurrent, or
\* config.concurrent_requests when it is None (or 0)
EffectiveLimit ==
    IF batch.max_concurrent # Nil /\ batch.max_concurrent # <<0>>
    THEN batch.max_concurrent[1] ELSE config.concurrent_requests

\* C1 as stated: the list scrape_multiple_urls_async returns for N URLs holds
\* exactly N outcomes.
C1_Original ==
    batch.state = "returned" => Len(batch.returned) = Len(batch.urls)

\* C2: while scrape_multiple_urls_async runs, the number of URLs between
\* semaphore acquire and release is at most the effective limit.
C2_InFlightBounded ==
    batch.state = "running" => InFlight <= EffectiveLimit

\* C2 witness: the limit is reached while another URL waits for a slot.
C2_Witness ==
    /\ batch.state = "running"
    /\ InFlight = EffectiveLimit
    /\ \E t \in DOMAIN pc : pc[t] = "pending"
    /\ \E t \in DOMAIN pc : pc[t] = "sleeping"

\* C3 as stated: any two consecutive returns of wait_async are at least
\* max(base_delay, crawl_delay) apart.
C3_Original ==
    \A i \in 1..(Len(dispatch_log) - 1) :
        (dispatch_log[i].via = "async" /\ dispatch_log[i + 1].via = "async") =>
            dispatch_log[i + 1].at - dispatch_log[i].at >=
                Max(config.base_delay,
                    IF config.crawl_delay = Nil THEN 0 ELSE config.crawl_delay[1])

\* the Crawl-delay the cached robots.txt of host h declares (Nil: none)
RobotsDelayOf(h) ==
    IF h \in DOMAIN robots_cache /\ robots_cache[h] # Nil
    THEN ParserCrawlDelay(robots_cache[h]) ELSE Nil

\* C4 as stated: when the robots.txt of a host declares a Crawl-delay d greater
\* than base_delay, two consecutive requests to that host are at least d apart.
C4_Original ==
    \A i, j \in DOMAIN dispatch_log :
        (/\ i < j
         /\ dispatch_log[i].via = "sync" /\ dispatch_log[j].via = "sync"
         /\ dispatch_log[i].host = dispatch_log[j].host
         /\ \A k \in (i + 1)..(j - 1) : dispatch_log[k].host # dispatch_log[i].host
         /\ RobotsDelayOf(dispatch_log[i].host) # Nil
         /\ RobotsDelayOf(dispatch_log[i].host)[1] > config.base_delay)
        => dispatch_log[j].at - dispatch_log[i].at
              >= RobotsDelayOf(dispatch_log[i].host)[1]

\* C5: a request that robots rules deny (sync or async) leaves the rate
\* limiter, the proxy pool and its cursor, and the request statistics as they
\* were: no wait, no proxy selection, no fetch.
C5_DeniedRequestFrame ==
    [][(last_outcome'.n = last_outcome.n + 1 /\ last_outcome'.kind = "RobotsDenied")
         => UNCHANGED <<last_request_time, request_count, proxies,
                        current_proxy_index, proxy_stats, last_call, stats,
                        attempts,
                        dispatch_log>>]_vars

\* C5 witness: a task of the batch was denied by robots after an earlier
\* request had passed the rate limiter and taken a proxy.
C5_Witness ==
    /\ last_outcome.kind = "RobotsDenied"
    /\ batch.state = "running"
    /\ request_count > 0
    /\ current_proxy_index > 0

\* C6: once loading robots.txt of a host has raised, _can_fetch authorizes
\* every URL of the host and _get_crawl_delay returns None for it, now and in
\* every later state, without loading robots.txt again.
C6_FailOpen ==
    \A u \in Urls :
        DomainOf(u) \in robots_failed =>
            /\ CanFetch(robots_cache, config, u)
            /\ GetCrawlDelay(robots_cache, config, u) = Nil
            /\ ~LoadsRobots(robots_cache, config, u)

\* C6 witness: two requests were dispatched to a host whose robots.txt load
\* raised, the second one answered from the cache.
C6_Witness ==
    \E i, j \in DOMAIN dispatch_log :
        /\ i < j
        /\ dispatch_log[i].host = dispatch_log[j].host
        /\ dispatch_log[i].host \in robots_failed

\* C11 as stated: when a request routed through a proxy has ended in a
\* transport or timeout error, a failure has been reported for that proxy
\* (its failures counter was incremented) by the time the request function
\* returned.
C11_Original ==
    (/\ last_outcome.kind = "NetworkError"
     /\ last_call.op = "get_proxy"
     /\ last_call.ret \in DOMAIN proxy_stats)
    => proxy_stats[last_call.ret].failures >= 1

\* C12: on a fresh DataProcessor, an is_duplicate call returns False exactly
\* when no earlier call was made with an identical record: the first call for
\* a record reports it as new and every later one reports a duplicate,
\* whatever other records were submitted in between.
C12_DedupIdempotent ==
    \A i \in DOMAIN submitted :
        submitted[i].ret = (\E j \in 1..(i - 1) : submitted[j].data = submitted[i].data)

\* C12 witness: a record was submitted, then another one, then the first one
\* twice more; it was new the first time and a duplicate the third time.
C12_Witness ==
    /\ Len(submitted) = 4
    /\ submitted[1].data = submitted[3].data
    /\ submitted[1].data = submitted[4].data
    /\ submitted[1].data # submitted[2].data
    /\ ~submitted[1].ret
    /\ submitted[3].ret
    /\ submitted[4].ret
    /\ duplicate_count = 2

\* C13 as stated: after scraping the seed URLs [A, A, B] with one WebScraper,
\* every fetch succeeding and both fetches of A delivering the same page,
\* results holds exactly 2 records and the duplicate count is 1.
C13_Original ==
    LET A == [host |-> "h1", path |-> "/a"]
        B == [host |-> "h1", path |-> "/b"]
    IN  (/\ batch.state = "returned"
         /\ batch.urls = <<A, A, B>>
         /\ \A t \in 1..3 : task_ret[t] # Nil
         /\ task_ret[1].title = task_ret[2].title
         /\ task_ret[1].status_code = task_ret[2].status_code)
        => (Len(results) = 2 /\ duplicate_count = 1)

\* C14 as stated: during one scrape_with_pagination walk no URL is scraped
\* twice.
C14_Original ==
    \A i, j \in DOMAIN walk.visited : i # j => walk.visited[i] # walk.visited[j]

\* C15: a walk started at a seed page whose next link points back to the seed
\* scrapes exactly 1 page and then stops, whatever max_pages is: it never goes
\* on to a second iteration, and it has scraped 1 page when it returns.
C15_SelfLinkStopsAfterOnePage ==
    (walk.state # "idle" /\ GetNextPageUrl(site, walk.start_url) = walk.start_url) =>
        /\ walk.page_count <= 1
        /\ walk.state # "sleep"
        /\ walk.current_url = walk.start_url
        /\ walk.state \in {"done", "raised"} => walk.page_count = 1
        /\ walk.page_count = 1 => walk.state \in {"analyse", "done", "raised"}

\* C15 witness: without max_pages, the seed was scraped, requested again,
\* its next link to itself was found and the walk returned 1 result.
C15_Witness ==
    /\ walk.state = "done"
    /\ walk.max_pages = Nil
    /\ GetNextPageUrl(site, walk.start_url) = walk.start_url
    /\ walk.page_count = 1
    /\ Len(walk.all_results) = 1
    /\ last_outcome.n = 2
    /\ last_outcome.kind = "Success"

\* C16: a walk called with max_pages = m, m >= 1, scrapes at most m pages and
\* holds at most m results, on every site.
C16_PageCeiling ==
    (walk.max_pages # Nil /\ walk.max_pages[1] >= 1) =>
        /\ walk.page_count <= walk.max_pages[1]
        /\ Len(walk.visited) <= walk.max_pages[1]
        /\ Len(walk.all_results) <= walk.max_pages[1]

\* C16 witness: a walk with max_pages = 2 scraped 2 pages, found a next link
\* on the second one, moved to it and was stopped by the ceiling.
C16_Witness ==
    /\ walk.state = "done"
    /\ walk.max_pages = <<2>>
    /\ walk.page_count = 2
    /\ Len(walk.all_results) = 2
    /\ walk.current_url # walk.visited[2]
    /\ GetNextPageUrl(site, walk.visited[2]) = walk.current_url

\* C17 as stated, in the form a bounded check decides: a walk that terminates
\* on a static site whatever the fetches do never comes back to the top of
\* its loop with a URL it has already scraped and no page ceiling, since the
\* loop would then go round again in the same way for ever.
C17_Original ==
    ~(/\ walk.state = "scrape"
      /\ ~Truthy(walk.max_pages)
      /\ \E i \in DOMAIN walk.visited : walk.visited[i] = walk.current_url)

\* C18 as stated: every attempt of a fetch, the first one and each retry, is
\* preceded by its own rate-limiter wait, and by its own proxy selection when
\* proxies are enabled: the attempts made on the network never outnumber the
\* returns of the rate limiter, nor the proxies handed out.
C18_Original ==
    /\ attempts <= request_count
    /\ config.use_proxies => attempts <= SumRequests(proxy_stats)

\* ---------------------------------------------------------------------------
\* Batches under configurations whose concurrent_requests may be zero
\* (settings.py:22 is a plain dataclass field, nothing validates it).

\* largest configured concurrent_requests
MaxConcurrent == 1

\* most URLs of a batch
MaxLimitUrls == 2

\* last instant of the clock
MaxLimitTime == 11

LimitConfigs ==
    {[BatchConfig EXCEPT !.concurrent_requests = c] : c \in 0..MaxConcurrent}

InitLimit == \E cfg \in LimitConfigs : ScraperInit(cfg)

\* the clock runs to MaxLimitTime, and beyond it for as long as a task is in
\* asyncio.sleep: a sleep always ends
LimitTick ==
    /\ \/ now < MaxLimitTime
       \/ \E t \in DOMAIN pc : pc[t] = "sleeping" /\ now < wake[t]
    /\ now' = now + 1
    /\ UNCHANGED <<config, walkVars, proxyVars, otherVars>>

LimitCall ==
    \E us \in SeqUpTo(BatchUrls, MaxLimitUrls), mc \in {Nil, <<0>>} :
        scrape_multiple_urls_async(us, mc)

NextLimit == LimitTick \/ LimitCall \/ Start \/ Wake \/ Respond \/ Read \/ Gather

SpecLimit == InitLimit /\ [][NextLimit]_vars

\* C19 as stated: a batch call whose effective concurrency limit is zero
\* (max_concurrent and config.concurrent_requests both 0) fails at call time:
\* the batch is never started, so it neither runs, nor returns, nor waits for a
\* slot.
C19_Original == EffectiveLimit = 0 => batch.state = "idle"

\* The asyncio event loop runs every task that is ready (a task whose semaphore
\* slot is free, whose sleep is over, or whose gather is complete), time passes,
\* and every fetch and every body read terminates.
FairLimit ==
    /\ SpecLimit
    /\ WF_vars(LimitTick)
    /\ WF_vars(Start)
    /\ WF_vars(Wake)
    /\ WF_vars(Respond)
    /\ WF_vars(Read)
    /\ WF_vars(Gather)

\* C20: in scrape_multiple_urls_async with a limit of at least 1 and fetches
\* that each terminate, no failed fetch and no exception of one URL aborts the
\* batch: a running batch leads to the call having returned with every input
\* URL's task finished and every semaphore slot released.
C20_BatchCompletes ==
    (batch.state = "running" /\ EffectiveLimit >= 1)
        ~> /\ batch.state = "returned"
           /\ DOMAIN pc = 1..Len(batch.urls)
           /\ \A t \in DOMAIN pc : pc[t] = "done"
           /\ semaphore = EffectiveLimit

\* a batch of two URLs with limit 1 has returned although the first URL's
\* task failed; the second URL was still scraped and the slot is free again
C20_Witness ==
    /\ batch.state = "returned"
    /\ EffectiveLimit = 1
    /\ Len(batch.urls) = 2
    /\ task_ret[1] = Nil
    /\ task_ret[2] # Nil
    /\ Len(errors) > batch.errors_before
    /\ semaphore = EffectiveLimit

\* C21: robots.txt is loaded at most once per host and scraper instance, also
\* when the first load failed: no domain is loaded twice, the loaded domains
\* are exactly the cached ones, and a cached ruling stays in
\* the cache unchanged at every step.
C21_RobotsLoadedOnce ==
    [][/\ \A d \in DOMAIN robots_cache :
            d \in DOMAIN robots_cache' /\ robots_cache'[d] = robots_cache[d]
       /\ \A d \in DOMAIN robots_loads' : robots_loads'[d] = 1
       /\ DOMAIN robots_loads' = DOMAIN robots_cache']_vars

\* two requests went to a host whose only robots.txt load had failed
C21_Witness ==
    \E i, j \in DOMAIN dispatch_log :
        /\ i < j
        /\ dispatch_log[i].host = dispatch_log[j].host
        /\ dispatch_log[i].host \in robots_failed
        /\ robots_loads[dispatch_log[i].host] = 1
        /\ DOMAIN robots_cache = robots_failed

\* ---------------------------------------------------------------------------
\* The rotation over a pool of three proxies, with the calls of SpecProxy and
\* a clock, which get_proxy stores in last_used.
\* last instant of the clock
MaxRotationTime == 11

RotationPool == <<"p1", "p2", "p3">>

InitRotation ==
    ScraperInit([DefaultConfig EXCEPT !.use_proxies = TRUE,
                                      !.proxy_list = RotationPool,
                                      !.proxy_rotation = TRUE])

RotationTick ==
    /\ now < MaxRotationTime
    /\ now' = now + 1
    /\ UNCHANGED <<config, walkVars, proxyVars, otherVars>>

NextRotation == RotationTick \/ ProxyGet \/ ProxyFailed \/ ProxySuccess

SpecRotation == InitRotation /\ [][NextRotation]_vars

C29_Original ==
    [][\A p \in DOMAIN proxy_stats :
          (/\ last_call'.op = "get_proxy"
           /\ proxy_stats' # proxy_stats
           /\ Len(ActiveProxies(proxies, proxy_stats)) >= 2
           /\ \A q \in DOMAIN proxy_stats \ {p} :
                  proxy_stats[q].last_used < proxy_stats[p].last_used)
          => last_call'.ret # p]_vars

(***************************************************************************)
(* PaginationHandler: sitemaps and generated page URLs                     *)
(***************************************************************************)
\* most elements of a sitemap document
MaxSitemapEntries == 3

\* the text of a <loc> element as written in the document
LocTexts == {"u1", " u1 ", "u2"}

\* loc.get_text(strip=True)
StripText(t) == IF t = " u1 " THEN "u1" ELSE t

\* a sitemap document: its elements in document order, each with its tag and
\* the text of its <loc> child (None when it has none)
SitemapDocs ==
    SeqUpTo([tag : {"url", "sitemap", "other"}, loc : LocTexts \cup {None}],
            MaxSitemapEntries)

\* extract_pagination_urls_from_sitemap, mutated: one pass over the document
LocsOfInOnePass(doc, tag) ==
    LET Loop[i \in 0..Len(doc)] ==
            IF i = 0 THEN <<>>
            ELSE IF doc[i].tag \in {"url", "sitemap"} /\ doc[i].loc # None
                 THEN Append(Loop[i - 1], StripText(doc[i].loc))
                 ELSE Loop[i - 1]
    IN  IF tag = "url" THEN Loop[Len(doc)] ELSE <<>>

\* one loop of extract_pagination_urls_from_sitemap: the stripped <loc> text
\* of every element named tag that has a <loc>, appended in document order
LocsOf(doc, tag) ==
    LET Loop[i \in 0..Len(doc)] ==
            IF i = 0 THEN <<>>
            ELSE IF doc[i].tag = tag /\ doc[i].loc # None
                 THEN Append(Loop[i - 1], StripText(doc[i].loc))
                 ELSE Loop[i - 1]
    IN  Loop[Len(doc)]

\* extract_pagination_urls_from_sitemap: BeautifulSoup(content, 'xml') raises,
\* and the except clause returns the still empty list, or the two loops run
\* (the calls are independent of each other: one call is followed per behaviour)
extract_pagination_urls_from_sitemap ==
    \E doc \in SitemapDocs, raises \in BOOLEAN :
        /\ handler_call.op = "none"
        /\ handler_call' =
             [op |-> "sitemap", doc |-> doc, raised |-> raises,
              ret |-> IF raises THEN <<>>
                      ELSE LocsOf(doc, "url") \o LocsOf(doc, "sitemap")]
        /\ UNCHANGED <<config, now, proxyVars, rateVars, robots_cache, stats,
                       attempts, dataVars, batchVars, walkVars, robots_failed,
                       robots_loads, dispatch_log, last_outcome>>

\* largest max_pages passed to generate_page_urls
MaxGenPages == 2

\* most iterations followed of a generate_page_urls loop
MaxGenLoop == 4

\* query_params[page_param] = [str(page)] and the URL rebuilt from the parts
PageUrl(base, page) == [base EXCEPT !.page = <<page>>]

\* the exit test of the loop: max_pages and page > start_page + max_pages - 1
BreakCondition(mp, page, start) == Truthy(mp) /\ page > start + mp[1] - 1

\* generate_page_urls up to the loop; base_url is given by its path and the
\* value of its page parameter, if it has one
generate_page_urls ==
    \E base \in {[path |-> "/list", page |-> Nil], [path |-> "/list", page |-> <<9>>]},
       start \in 1..2, mp \in {Nil} \cup {<<m>> : m \in 0..MaxGenPages} :
        /\ handler_call.op = "none"
        /\ handler_call' =
             [op |-> "generating", base_url |-> base, start_page |-> start,
              max_pages |-> mp, page |-> start, urls |-> <<>>]
        /\ UNCHANGED <<config, now, proxyVars, rateVars, robots_cache, stats,
                       attempts, dataVars, batchVars, walkVars, robots_failed,
                       robots_loads, dispatch_log, last_outcome>>

\* one iteration of the while True loop of generate_page_urls: break and
\* return urls, or append the URL of the page and go on to the next page
GeneratePage ==
    /\ handler_call.op = "generating"
    /\ LET c == handler_call IN
       IF BreakCondition(c.max_pages, c.page, c.start_page)
       THEN handler_call' = [c EXCEPT !.op = "generated"]
       ELSE /\ Len(c.urls) < MaxGenLoop
            /\ handler_call' =
                 [c EXCEPT !.urls = Append(@, PageUrl(c.base_url, c.page)),
                           !.page = @ + 1]
    /\ UNCHANGED <<config, now, proxyVars, rateVars, robots_cache, stats,
                   attempts, dataVars, batchVars, walkVars, robots_failed,
                   robots_loads, dispatch_log, last_outcome>>

NextHandler ==
    extract_pagination_urls_from_sitemap \/ generate_page_urls \/ GeneratePage

SpecHandler == ScraperInit(DefaultConfig) /\ [][NextHandler]_vars

\* C23: extract_pagination_urls_from_sitemap never raises to its caller: it
\* returns a list, the empty one when parsing the content failed, and
\* otherwise the locations of the <url> elements in document order followed
\* by the locations of the <sitemap> elements; it fetches nothing.
C23_SitemapExtraction ==
    handler_call.op = "sitemap" =>
        LET doc == handler_call.doc
            ret == handler_call.ret
            At(tag) == {i \in DOMAIN doc : doc[i].tag = tag /\ doc[i].loc # None}
            n == Cardinality(At("url"))
        IN  /\ ret \in Seq({StripText(t) : t \in LocTexts})
            /\ handler_call.raised => ret = <<>>
            /\ ~handler_call.raised =>
                 /\ Len(ret) = n + Cardinality(At("sitemap"))
                 /\ \A i \in At("url") :
                      ret[Cardinality({j \in At("url") : j <= i})]
                          = StripText(doc[i].loc)
                 /\ \A i \in At("sitemap") :
                      ret[n + Cardinality({j \in At("sitemap") : j <= i})]
                          = StripText(doc[i].loc)
            /\ attempts = 0 /\ request_count = 0

\* a sitemap index entry that precedes a page entry in the document comes
\* after it in the returned list
C23_Witness ==
    /\ handler_call.op = "sitemap"
    /\ ~handler_call.raised
    /\ Len(handler_call.doc) = 3
    /\ handler_call.doc[1].tag = "sitemap"
    /\ handler_call.doc[1].loc = "u2"
    /\ handler_call.doc[3].tag = "url"
    /\ handler_call.doc[3].loc = " u1 "
    /\ handler_call.ret = <<"u1", "u2">>

\* C28 as stated: generate_page_urls terminates for every input, max_pages
\* None or 0 included: the page number grows by one per iteration, so the loop
\* always has a page number ahead at which its exit test holds; and for
\* max_pages = m >= 1 it returns exactly m URLs whose page parameter runs
\* from start_page to start_page + m - 1.
C28_Original ==
    LET c == handler_call IN
    /\ c.op = "generating" =>
         \E p \in c.page..(c.page + MaxGenPages) :
             BreakCondition(c.max_pages, p, c.start_page)
    /\ (c.op = "generated" /\ Truthy(c.max_pages)) =>
         /\ Len(c.urls) = c.max_pages[1]
         /\ \A i \in DOMAIN c.urls : c.urls[i].page = <<c.start_page + i - 1>>

\* C24: when several scrape_single_url_async workers of a batch submit
\* byte-identical records, the membership test and the insertion of
\* is_duplicate are not interleaved: of the workers that submitted a given
\* record exactly one saw it as new, results holds it exactly once, and every
\* other submission is counted as a duplicate.
C24_OneWorkerSeesNew ==
    /\ \A i \in DOMAIN submitted :
         LET d == submitted[i].data IN
         /\ Cardinality({j \in DOMAIN submitted :
                            submitted[j].data = d /\ ~submitted[j].ret}) = 1
         /\ Cardinality({k \in DOMAIN results : results[k] = d}) = 1
    /\ duplicate_count = Cardinality({j \in DOMAIN submitted : submitted[j].ret})

\* two workers of a batch with two slots have submitted the same record: one
\* result, one duplicate
C24_Witness ==
    /\ batch.state = "running"
    /\ EffectiveLimit >= 2
    /\ Len(submitted) = 2
    /\ submitted[1].data = submitted[2].data
    /\ ~submitted[1].ret
    /\ submitted[2].ret
    /\ Len(results) = 1
    /\ duplicate_count = 1

\* C25: for a single sequential caller, wait_sync returns no earlier than
\* max(base_delay, config.crawl_delay) after the previous wait_sync returned,
\* and without sleeping when that much time has already elapsed; a request
\* that the robots rules let through always gets its wait_sync return, and
\* each return adds exactly one to request_count.
C25_SyncSpacing ==
    [][LET d == IF config.crawl_delay # Nil
                    /\ config.crawl_delay[1] > config.base_delay
                 THEN config.crawl_delay[1] ELSE config.base_delay
       IN  /\ request_count' \in {request_count, request_count + 1}
           /\ request_count' = request_count + 1 =>
                /\ last_request_time' = now'
                /\ now' - last_request_time >= d
                /\ now - last_request_time >= d => now' = now
           /\ (last_outcome'.n # last_outcome.n
                  /\ last_outcome'.kind # "RobotsDenied")
              => request_count' = request_count + 1]_vars

\* with crawl_delay 2 above base_delay 1: a second request was made one second
\* after the first and its wait_sync returned two seconds after the first's
C25_Witness ==
    /\ config.crawl_delay = <<2>>
    /\ Len(dispatch_log) = 2
    /\ dispatch_log[2].at - dispatch_log[1].at = 2
    /\ request_count = 2
    /\ last_request_time = dispatch_log[2].at

\* C26 as stated: the shared aiohttp session is never closed while another
\* request that obtained the same session is still in flight: no task awaits
\* a request on a session object that another task has closed.
C26_Original == async_session.orphans = {}

\* C27 as stated: in a non-browser pagination walk every visited page is
\* requested exactly once, one rate-limiter wait and one HTTP fetch per page:
\* neither the returns of the rate limiter nor the requests made outnumber the
\* pages scraped, and they equal them once a walk over fetched pages is over.
C27_Original ==
    /\ request_count <= walk.page_count
    /\ stats.requests_made <= walk.page_count
    /\ (walk.state = "done" /\ Len(walk.all_results) = walk.page_count)
           => stats.requests_made = walk.page_count

\* C30 as stated: after any sequence of completed scrape_single_url_async
\* calls, total_processed of get_comprehensive_stats (results_count +
\* errors_count) equals the number of those calls: every processed URL is in
\* exactly one of results and errors, duplicates included.
C30_Original ==
    Len(results) + Len(errors) = Cardinality({t \in DOMAIN pc : pc[t] = "done"})

====
